---- MODULE Spec2Model ----
(***************************************************************************)
(* Model of the ch32-supply firmware: the byte ring buffer of RingBuffer.c *)
(* and the boost converter's feedback controller of boost.c.               *)
(*                                                                         *)
(* The two components share no state, so each has its own specification    *)
(* over its own variables; every specification leaves the other            *)
(* component's variables at their initial values.                          *)
(*   RingSpec  the ring buffer, one action per public operation            *)
(*   CallSpec  the ring buffer's operations statement by statement, with   *)
(*             null arguments and a lock strategy                          *)
(*   SharedSpec two callers of one ring that has a lock strategy, a        *)
(*             producer (Put) and a consumer (Get), statement by statement *)
(*   Spec      the controller: the ADC interrupt (Tick) interleaved with   *)
(*             the main context's calibration and target-setting calls     *)
(*   PairSpec  two controllers run side by side (self-composition)         *)
(*   LimitSpec the controller with current limits over the whole range of  *)
(*             the uint32_t argument that the model can represent          *)
(*   WindupSpec the controller over long runs of Ticks, up to the limit of *)
(*             the int that holds the integral                             *)
(* and main.c, which commands the controller:                              *)
(*   UsbSpec   main's loop without a debugger, statement by statement,     *)
(*             with the USB interrupt between any two statements           *)
(*   ConsoleSpec main's loop with a debugger attached, which reads the     *)
(*             console's keys, and the ADC interrupt                       *)
(* A uint32_t is held as the int of the same 32 bits: values from 2^31 up  *)
(* are the negative ints.                                                  *)
(***************************************************************************)
EXTENDS Integers, Sequences, FiniteSets, TLC

VARIABLES
    \* ---- RingBuffer.c ----
    ring,        \* RingBuffer_t: [data, size, head, tail]
    rop,         \* the last call: [op, len] (len = its size argument); a scan
                 \* also has [value, again], again = it repeats the call before
    ret,         \* what the last call gave its caller: [status, bytesRead, out],
                 \* [status, index] for a scan, [size] for Peek
    unread,      \* history: bytes accepted by Put and not yet returned by Get
    overfilled,  \* history: the number of unread bytes has exceeded ring.size
    lock,        \* the object behind mutex.lock: [held], and history: the
                 \* [takes, releases] of the call in progress
    call,        \* the caller's frame: position, arguments, locals, status
    \* ---- boost.c ----
    boost,       \* the module's statics, and BoostControllerPID's
    mpc,         \* position of the main context
    mlocal,      \* a local of the main context: MillivoltsToADC's result, not
                 \* yet stored (Spec); the milliamps last passed (LimitSpec);
                 \* the number of keys read so far (ConsoleSpec)
    cop,         \* the last controller step
    pending,     \* a target was written and no Tick has run since
    nTicks,      \* enabled Ticks since the PID memory was last reset
    \* ---- two controllers side by side ----
    runA, runB, phase,
    \* ---- main.c ----
    s_command,            \* the commanded [voltage, current], uint32_t each
    s_bytesReceived,      \* bytes the USB handler has counted
    s_lastBytesReceived,  \* main's copy of it when it last applied a command
    s_state,              \* main's copy of the converter's state: [ccMode]
    passed,      \* history: the arguments of the last BoostPWM_SetVoltageTarget
                 \* and BoostPWM_SetCurrentLimit calls, and the path that made
                 \* the last call
    \* ---- a second caller of the ring buffer ----
    peer         \* its frame

callVars == <<lock, call>>
ringVars == <<ring, rop, ret, unread, overfilled, callVars>>
ctlVars  == <<boost, mpc, mlocal, cop, pending, nTicks>>
pairVars == <<runA, runB, phase>>
mainVars == <<s_command, s_bytesReceived, s_lastBytesReceived, s_state, passed>>
vars     == <<ringVars, ctlVars, pairVars, mainVars, peer>>

Min(a, b) == IF a < b THEN a ELSE b
Max(a, b) == IF a > b THEN a ELSE b

(***************************************************************************)
(* Bounds of the model.                                                    *)
(***************************************************************************)
MaxSize == 3     \* capacities 1..MaxSize
MaxOver == 2     \* unread bytes tracked up to ring.size + MaxOver
MaxTicks == 3    \* enabled Ticks between two resets of the PID memory
MaxPattern == 2
MaxReceived == 18     \* bytes the USB handler counts before the host stops
MaxKeys == 3          \* keys read from the console (a held key counts once)  \* patterns of 0..MaxPattern bytes are searched for
Bytes == {0, 1}  \* byte values stored

(***************************************************************************)
(*                              RingBuffer.c                               *)
(***************************************************************************)
SUCCESS       == "eRING_BUFFER_STATUS_SUCCESS"
INVALID_PARAM == "eRING_BUFFER_STATUS_INVALID_PARAM"
OVERFLOW      == "eRING_BUFFER_STATUS_OVERFLOW"
ERROR         == "eRING_BUFFER_STATUS_ERROR"
\* an output parameter the call did not write
NotWritten    == "not written"

\* static size_t Peek(const RingBuffer_t *ring)
Peek(r) ==
    IF r.head = r.tail THEN 0
    ELSE IF r.head >= r.tail THEN r.head - r.tail
    ELSE r.size - (r.tail - r.head)

\* RingBuffer_Init: the state after a successful call
RingBuffer_Init(data, size) ==
    [data |-> data, size |-> size, head |-> 0, tail |-> 0]

\* the copy loop of Put, had it wrapped head one position late
RECURSIVE PutLoopLateWrap(_, _)
PutLoopLateWrap(r, S) ==
    IF S = <<>> THEN r
    ELSE LET h == r.head + 1
         IN  PutLoopLateWrap([r EXCEPT !.data[r.head % r.size] = Head(S),
                                       !.head = IF h > r.size THEN 0 ELSE h],
                             Tail(S))

\* while (size--) { ring->data[ring->head++] = *data++; if (head == size) head = 0; }
RECURSIVE PutLoop(_, _)
PutLoop(r, S) ==
    IF S = <<>> THEN r
    ELSE LET h == r.head + 1
         IN  PutLoop([r EXCEPT !.data[r.head] = Head(S),
                               !.head = IF h = r.size THEN 0 ELSE h],
                     Tail(S))

\* RingBuffer_Put, had it copied what fits before reporting the overflow
RingBuffer_PutPartial(r, S) ==
    LET free == r.size - Peek(r)
    IN  IF Len(S) = 0 THEN [ring |-> r, status |-> INVALID_PARAM]
        ELSE IF Len(S) > free
             THEN [ring |-> PutLoop(r, SubSeq(S, 1, free)), status |-> OVERFLOW]
             ELSE [ring |-> PutLoop(r, S), status |-> SUCCESS]

\* RingBuffer_Put(ring, data, size): S is data[0..size-1]
RingBuffer_Put(r, S) ==
    LET free == r.size - Peek(r)
    IN  IF Len(S) = 0 THEN [ring |-> r, status |-> INVALID_PARAM]
        ELSE IF Len(S) > free
             THEN [ring |-> r, status |-> OVERFLOW]
             ELSE [ring |-> PutLoop(r, S), status |-> SUCCESS]

\* while (bytesToRead--) { *data++ = ring->data[ring->tail++]; if (tail == size) tail = 0; }
RECURSIVE GetLoop(_, _, _)
GetLoop(r, n, acc) ==
    IF n = 0 THEN [ring |-> r, out |-> acc]
    ELSE LET t == r.tail + 1
         IN  GetLoop([r EXCEPT !.tail = IF t = r.size THEN 0 ELSE t],
                     n - 1, Append(acc, r.data[r.tail]))

\* RingBuffer_Get(ring, data, size, bytesRead); out is what was copied to data
RingBuffer_Get(r, size) ==
    IF size = 0
    THEN [ring |-> r, out |-> <<>>, bytesRead |-> NotWritten, status |-> INVALID_PARAM]
    ELSE LET available   == Peek(r)
             bytesToRead == IF size < available THEN size ELSE available
             res         == GetLoop(r, bytesToRead, <<>>)
         IN  [ring |-> res.ring, out |-> res.out,
              bytesRead |-> bytesToRead, status |-> SUCCESS]

\* RingBuffer_Peek
RingBuffer_Peek(r) == Peek(r)

\* while (pos != ring->head) of RingBuffer_IndexOf, from position pos with
\* count positions passed
RECURSIVE IndexOfLoop(_, _, _, _)
IndexOfLoop(r, value, pos, count) ==
    IF pos = r.head THEN [pos |-> pos, status |-> ERROR, index |-> NotWritten]
    ELSE IF r.data[pos] = value
         THEN [pos |-> pos, status |-> SUCCESS, index |-> count]
         ELSE IndexOfLoop(r, value, IF pos + 1 = r.size THEN 0 ELSE pos + 1, count + 1)

\* RingBuffer_IndexOf, had it consumed the bytes it passed over
RingBuffer_IndexOfConsuming(r, value) ==
    LET res == IndexOfLoop(r, value, r.tail, 0)
    IN  [ring |-> [r EXCEPT !.tail = res.pos], status |-> res.status, index |-> res.index]

\* RingBuffer_IndexOf(ring, value, index), ring and index not null; the ring
\* is handed back as the call leaves it
RingBuffer_IndexOf(r, value) ==
    LET res == IndexOfLoop(r, value, r.tail, 0)
    IN  [ring |-> r, status |-> res.status, index |-> res.index]

\* while (matchedValues < valueSize) of RingBuffer_Find: the number of pattern
\* bytes matched from position pos on, m of them already matched
RECURSIVE MatchLoop(_, _, _, _)
MatchLoop(r, value, pos, m) ==
    IF m >= Len(value) THEN m
    ELSE IF r.data[(pos + m) % r.size] # value[m + 1] THEN m
         ELSE MatchLoop(r, value, pos, m + 1)

\* while (pos != ring->head) of RingBuffer_Find
RECURSIVE FindLoop(_, _, _, _)
FindLoop(r, value, pos, count) ==
    IF pos = r.head THEN [status |-> ERROR, index |-> NotWritten]
    ELSE IF r.data[pos] = value[1] /\ MatchLoop(r, value, pos, 1) = Len(value)
         THEN [status |-> SUCCESS, index |-> count]
         ELSE FindLoop(r, value, IF pos + 1 = r.size THEN 0 ELSE pos + 1, count + 1)

\* RingBuffer_Find(ring, value, valueSize, index): value is value[0..valueSize-1]
RingBuffer_Find(r, value) ==
    IF Len(value) = 0
    THEN [ring |-> r, status |-> INVALID_PARAM, index |-> NotWritten]
    ELSE LET res == FindLoop(r, value, r.tail, 0)
         IN  [ring |-> r, status |-> res.status, index |-> res.index]

SeqsUpTo(n) == UNION {[1..k -> Bytes] : k \in 0..n}

(***************************************************************************)
(* The operations statement by statement. A frame holds the arguments as   *)
(* the caller passed them (NULL for a null pointer) and the locals.        *)
(***************************************************************************)
NULL    == "NULL"
UNKNOWN == "eRING_BUFFER_STATUS_UNKNOWN"

\* RingBufferMutexInterface_t: a complete strategy, and none (all null)
FullMutex == [lock |-> "lock", take |-> "take", release |-> "release"]
NoMutex   == [lock |-> NULL, take |-> NULL, release |-> NULL]

LockFree == [held |-> FALSE, takes |-> 0, releases |-> 0]

\* a ring object in zero-initialised static storage, before RingBuffer_Init
RingZeroed ==
    [data |-> NULL, size |-> 0, head |-> 0, tail |-> 0, mutex |-> NoMutex]

Frame(op, r, data, size, index, bytesRead, mutex) ==
    [pc |-> "entry", op |-> op, ring |-> r, data |-> data, size |-> size,
     index |-> index, bytesRead |-> bytesRead, mutex |-> mutex,
     n |-> 0, out |-> <<>>, status |-> UNKNOWN, wrote |-> NotWritten]

NoCall == [Frame("none", NULL, NULL, 0, NULL, NULL, NoMutex) EXCEPT !.pc = "idle"]

\* the byte at data[i] of the caller's buffer, and the pattern searched for
CallerByte == 1
CallerPattern(size) == [i \in 1..size |-> CallerByte]

\* RingBuffer_Init's assignments to *ring
InitFields(r, data, size) ==
    [r EXCEPT !.data = data, !.size = size, !.head = 0, !.tail = 0]

\* RingBuffer_Init: if (ring && data && size)
InitStatus(c) ==
    IF c.ring # NULL /\ c.data # NULL /\ c.size # 0 THEN SUCCESS ELSE INVALID_PARAM

\* RingBuffer_InitThreadSafe, had it attached the strategy whatever Init said
AttachMutexAlways(r, c, status) ==
    IF c.ring # NULL THEN [r EXCEPT !.mutex = c.mutex] ELSE r

\* RingBuffer_InitThreadSafe: if (eRING_BUFFER_STATUS_SUCCESS == status) ring->mutex = mutex
AttachMutex(r, c, status) ==
    IF status = SUCCESS THEN [r EXCEPT !.mutex = c.mutex] ELSE r

\* the early return of Put, Get, IndexOf and Find: the arguments each tests
ParamsRejected(c) ==
    CASE c.op \in {"RingBuffer_Put", "RingBuffer_Get"} ->
             c.ring = NULL \/ c.data = NULL \/ c.size = 0
      [] c.op = "RingBuffer_IndexOf" -> c.ring = NULL \/ c.index = NULL
      [] c.op = "RingBuffer_Find" ->
             c.ring = NULL \/ c.data = NULL \/ c.size = 0 \/ c.index = NULL
      [] OTHER -> FALSE

\* RingLock / RingUnlock: whether the strategy's operation is called
Takes(r)    == r.mutex.lock # NULL /\ r.mutex.take # NULL
Releases(r) == r.mutex.lock # NULL /\ r.mutex.release # NULL

\* RingBuffer_Put after the comparison, had the Overflow branch returned at once
PutBranchEarlyReturn(size, free) ==
    IF size > free THEN [pc |-> "idle", status |-> OVERFLOW]
    ELSE [pc |-> "copy", status |-> UNKNOWN]

\* RingBuffer_Put: if (size > free) status = OVERFLOW; else the copy loop
PutBranch(size, free) ==
    IF size > free THEN [pc |-> "RingUnlock", status |-> OVERFLOW]
    ELSE [pc |-> "copy", status |-> UNKNOWN]

(***************************************************************************)
(*                                 boost.c                                 *)
(***************************************************************************)
INTERNAL_VREF  == 1200
ADC_RESOLUTION == 10
ADC_MAX        == 2 ^ ADC_RESOLUTION
Rf  == 390
Rin == 100
Rt  == Rf + Rin
MIN_DUTY == 0
MAX_DUTY == 250

\* C integer conversions
ToUint8(x)  == x % 256
ToUint16(x) == x % 65536
ToInt16(x)  == LET m == x % 65536 IN IF m >= 32768 THEN m - 65536 ELSE m

\* the largest value of an int
INT_MAX == 2147483647

\* int + int as the build computes it: two's complement, wrapping at 32 bits
AddInt(a, b) ==
    IF b > 0 /\ a > 2147483647 - b
    THEN (a - 2147483647 - 1) + (b - 2147483647 - 1)
    ELSE IF b < 0 /\ a < (-2147483647 - 1) - b
    THEN (a + 2147483647 + 1) + (b + 2147483647 + 1)
    ELSE a + b

\* (int)(uint32_t - uint16_t), both operands below 2^16: the difference wraps
\* at 2^32 and reads back as the signed difference
SubAsInt(a, b) == a - b

\* PID terms: arithmetic right shifts of an int
KP(eP) == eP
KD(eD) == eD \div 8
\* the integral term, had it been subtracted
KINegated(eI) == -(eI \div 64)
KI(eI) == eI \div 64

\* samples the ADC delivers (10 bit), and the arguments the callers pass
VrefSamples    == {245, ADC_MAX - 1}
VoltageSamples == {0, 108, ADC_MAX - 1}
CurrentSamples == {0, ADC_MAX - 1}
MillivoltArgs  == {0, 5000, 15000}
MilliampArgs   == {0, 100}
\* what a division by zero may leave in a uint16_t (s_vref is 0 only before
\* the first conversion)
UndefinedRaw   == {0, 65535}

\* the statics of boost.c after reset (.bss / initialisers)
BoostReset ==
    [s_feedbackVRaw |-> 0, s_feedbackIRaw |-> 0, s_currentOffset |-> 0,
     s_vref |-> 0, s_pwmDuty |-> 0, s_ccMode |-> 0,
     s_targetVRaw |-> 0, s_targetIRaw |-> 0, lastEP |-> 0, eI |-> 0]

\* uint32_t / uint32_t, for a divisor below 2^30: the dividend's 32 bits are
\* read as unsigned
UDiv(x, d) ==
    IF x >= 0 THEN x \div d
    ELSE LET w == (x + 2147483647) + 1
             h == (w \div 2) + 1073741824
         IN  2 * (h \div d) + ((2 * (h % d) + (w % 2)) \div d)

\* GetVRefMillivolts, for s_vref # 0
GetVRefMillivolts(c) == (INTERNAL_VREF * ADC_MAX) \div c.s_vref

\* MillivoltsToADC: the values it may return (one, unless s_vref is 0).
\* millivolts * ADC_MAX * Rin is a uint32_t product; it is exact for the
\* millivolts of MillivoltArgs (below 2^32 / 102400).
MillivoltsToADC(c, millivolts) ==
    IF c.s_vref = 0 THEN UndefinedRaw
    ELSE { ToUint16(UDiv(millivolts * ADC_MAX * Rin, Rt * GetVRefMillivolts(c))) }

\* MilliampsToADC
MilliampsToADC(c, milliamps) == ToUint16(milliamps + c.s_currentOffset)

\* BoostPWM_SetVoltageTarget: the store of MillivoltsToADC's result
BoostPWM_SetVoltageTarget(c, raw) == [c EXCEPT !.s_targetVRaw = raw]

\* BoostPWM_SetCurrentLimit
BoostPWM_SetCurrentLimit(c, milliamps) ==
    IF milliamps # 0
    THEN [c EXCEPT !.s_targetIRaw = MilliampsToADC(c, milliamps)]
    ELSE [c EXCEPT !.s_targetIRaw = 0]

\* SetDuty(uint8_t duty)
SetDuty(c, duty) == [c EXCEPT !.s_pwmDuty = ToUint8(duty)]

\* the duty limit, had it used the 8-bit maximum instead of MAX_DUTY
LimitDutyWrongMax(duty) == Min(Max(duty, MIN_DUTY), 255)

\* duty = max(duty, MIN_DUTY); duty = min(duty, MAX_DUTY);
LimitDuty(duty) == Min(Max(duty, MIN_DUTY), MAX_DUTY)

\* the branch taken when a target is 0, had it left the integral alone
PIDSkipKeepsIntegral(c) == SetDuty([c EXCEPT !.lastEP = 0], 0)

\* the branch taken when a target is 0, had it left the duty alone
PIDSkipKeepsDuty(c) == [c EXCEPT !.lastEP = 0, !.eI = 0]

\* the branch taken when a target is 0: lastEP = 0; eI = 0; SetDuty(0); return;
PIDSkip(c) == SetDuty([c EXCEPT !.lastEP = 0, !.eI = 0], 0)

\* the mode flag, had the comparison been <=
CcModeStrict(ePv, ePi) == IF ePv <= ePi THEN 0 ELSE 1

\* s_ccMode = (ePv < ePi) ? 0 : 1
CcMode(ePv, ePi) == IF ePv < ePi THEN 0 ELSE 1

\* BoostControllerPID, had it skipped only when both targets are 0
BoostControllerPIDBothZero(c) ==
    IF c.s_targetVRaw = 0 /\ c.s_targetIRaw = 0
    THEN PIDSkip(c)
    ELSE LET ePv  == SubAsInt(c.s_targetVRaw, c.s_feedbackVRaw)
             ePi  == SubAsInt(c.s_targetIRaw, c.s_feedbackIRaw)
             eP   == Min(ePv, ePi)
             eD   == AddInt(eP, -c.lastEP)
             eI   == AddInt(c.eI, eP)
             duty == AddInt(AddInt(KP(eP), KD(eD)), KI(eI))
         IN  SetDuty([c EXCEPT !.s_ccMode = CcMode(ePv, ePi), !.eI = eI],
                     LimitDuty(duty))

\* BoostControllerPID. lastEP is reset in the first branch and assigned nowhere
\* else; an overflow of eI += eP wraps (AddInt).
BoostControllerPID(c) ==
    IF c.s_targetVRaw = 0 \/ c.s_targetIRaw = 0
    THEN PIDSkip(c)
    ELSE LET ePv  == SubAsInt(c.s_targetVRaw, c.s_feedbackVRaw)
             ePi  == SubAsInt(c.s_targetIRaw, c.s_feedbackIRaw)
             eP   == Min(ePv, ePi)
             eD   == AddInt(eP, -c.lastEP)
             eI   == AddInt(c.eI, eP)
             duty == AddInt(AddInt(KP(eP), KD(eD)), KI(eI))
         IN  SetDuty([c EXCEPT !.s_ccMode = CcMode(ePv, ePi), !.eI = eI],
                     LimitDuty(duty))

\* ADC1_IRQHandler
ADC1_IRQHandler(c, vref, current, voltage) ==
    BoostControllerPID([c EXCEPT !.s_vref = vref,
                                 !.s_feedbackIRaw = current,
                                 !.s_feedbackVRaw = voltage])

Enabled(c) == c.s_targetVRaw # 0 /\ c.s_targetIRaw # 0

\* Calibrate: s_targetVRaw = 0, and after the delay the offset
CalibrateTarget(c) == [c EXCEPT !.s_targetVRaw = 0]
CalibrateOffset(c) == [c EXCEPT !.s_currentOffset = ToInt16(c.s_feedbackIRaw)]

\* main.c: the limits of the commands
CONFIG_CURRENT_LIMIT == 1000
CONFIG_VOLTAGE_LIMIT == 15000

(***************************************************************************)
(* Initial states. RingBuffer_Init has run on caller-supplied storage of   *)
(* arbitrary content; boost.c is at the entry of Calibrate, the ADC        *)
(* interrupt already enabled by SetupADC.                                  *)
(***************************************************************************)
RingStart ==
    /\ lock = LockFree
    /\ call = NoCall
    /\ rop = [op |-> "RingBuffer_Init", len |-> 0]
    /\ ret = [status |-> SUCCESS, bytesRead |-> NotWritten, out |-> <<>>]
    /\ unread = <<>>
    /\ overfilled = FALSE

CtlStart ==
    /\ boost = BoostReset
    /\ mpc = "Calibrate"
    /\ mlocal = 0
    /\ cop = "BoostPWM_Init"
    /\ pending = FALSE
    /\ nTicks = 0

RunReset == [c |-> BoostReset, n |-> 0, wound |-> 0]

PairIdle == runA = RunReset /\ runB = RunReset /\ phase = "idle"

RingIdle == ring = RingBuffer_Init([i \in 0..0 |-> 0], 1) /\ RingStart

\* main.c before main's loop: static Command_t s_command = { 0,
\* CONFIG_CURRENT_LIMIT }, nothing received; no second caller of the ring
MainIdle ==
    /\ s_command = [voltage |-> 0, current |-> CONFIG_CURRENT_LIMIT]
    /\ s_bytesReceived = 0
    /\ s_lastBytesReceived = 0
    /\ s_state = [ccMode |-> FALSE]
    /\ passed = [voltage |-> 0, current |-> 0, by |-> "none"]
    /\ peer = NoCall

(***************************************************************************)
(* RingSpec: the ring buffer's operations, each call atomic.               *)
(***************************************************************************)
RingInit ==
    /\ \E size \in 1..MaxSize : \E data \in [0..(size - 1) -> Bytes] :
           ring = RingBuffer_Init(data, size)
    /\ RingStart
    /\ CtlStart
    /\ PairIdle
    /\ MainIdle

\* the data a caller passes to Put: every content up to the capacity, and one
\* buffer longer than the capacity
PutArgs(size) == SeqsUpTo(size) \cup {[i \in 1..(size + 1) |-> 0]}

Put ==
    \E S \in PutArgs(ring.size) :
        LET res == RingBuffer_Put(ring, S)
            acc == IF res.status = SUCCESS THEN unread \o S ELSE unread
        IN  /\ Len(acc) <= ring.size + MaxOver
            /\ ring' = res.ring
            /\ rop' = [op |-> "RingBuffer_Put", len |-> Len(S)]
            /\ ret' = [status |-> res.status, bytesRead |-> NotWritten, out |-> <<>>]
            /\ unread' = acc
            /\ overfilled' = (overfilled \/ Len(acc) > ring.size)
            /\ UNCHANGED <<callVars, ctlVars, pairVars, mainVars, peer>>

Get ==
    \E size \in 0..(ring.size + 1) :
        LET res == RingBuffer_Get(ring, size)
        IN  /\ ring' = res.ring
            /\ rop' = [op |-> "RingBuffer_Get", len |-> size]
            /\ ret' = [status |-> res.status, bytesRead |-> res.bytesRead, out |-> res.out]
            /\ unread' = SubSeq(unread, Len(res.out) + 1, Len(unread))
            /\ UNCHANGED <<overfilled, callVars, ctlVars, pairVars, mainVars, peer>>

\* whether the call before was this same scan with the same argument
SameScan(op, value) == rop.op = op /\ rop.value = value

PeekCall ==
    /\ rop' = [op |-> "RingBuffer_Peek", len |-> 0]
    /\ ret' = [size |-> RingBuffer_Peek(ring)]
    /\ UNCHANGED <<ring, unread, overfilled, callVars, ctlVars, pairVars, mainVars, peer>>

IndexOf ==
    \E value \in Bytes :
        LET res == RingBuffer_IndexOf(ring, value)
        IN  /\ ring' = res.ring
            /\ rop' = [op |-> "RingBuffer_IndexOf", len |-> 1, value |-> value,
                       again |-> SameScan("RingBuffer_IndexOf", value)]
            /\ ret' = [status |-> res.status, index |-> res.index]
            /\ UNCHANGED <<unread, overfilled, callVars, ctlVars, pairVars, mainVars, peer>>

Find ==
    \E value \in SeqsUpTo(MaxPattern) :
        LET res == RingBuffer_Find(ring, value)
        IN  /\ ring' = res.ring
            /\ rop' = [op |-> "RingBuffer_Find", len |-> Len(value), value |-> value,
                       again |-> SameScan("RingBuffer_Find", value)]
            /\ ret' = [status |-> res.status, index |-> res.index]
            /\ UNCHANGED <<unread, overfilled, callVars, ctlVars, pairVars, mainVars, peer>>

RingNext == Put \/ Get \/ PeekCall \/ IndexOf \/ Find

RingSpec == RingInit /\ [][RingNext]_vars

(***************************************************************************)
(* CallSpec: one caller, one ring object, each call run statement by       *)
(* statement. The caller passes null pointers and zero sizes as well as    *)
(* valid arguments, and calls Put, Get, Peek, IndexOf and Find only on a   *)
(* ring that RingBuffer_Init has accepted.                                 *)
(***************************************************************************)
CallInit ==
    /\ ring = RingZeroed
    /\ lock = LockFree
    /\ call = NoCall
    /\ rop = [op |-> "none", len |-> 0]
    /\ ret = [status |-> UNKNOWN, bytesRead |-> NotWritten, out |-> <<>>]
    /\ unread = <<>>
    /\ overfilled = FALSE
    /\ CtlStart
    /\ PairIdle
    /\ MainIdle

Pointers == {NULL, "arg"}

\* the calls the caller makes
Calls ==
    {Frame(op, r, data, size, NULL, NULL, mutex) :
         op \in {"RingBuffer_Init"}, r \in Pointers, data \in Pointers,
         size \in 0..MaxSize, mutex \in {NoMutex}}
    \cup
    {Frame(op, r, data, size, NULL, NULL, mutex) :
         op \in {"RingBuffer_InitThreadSafe"}, r \in Pointers, data \in Pointers,
         size \in 0..MaxSize, mutex \in {NoMutex, FullMutex}}
    \cup
    (IF ring.size = 0 THEN {}
     ELSE {Frame(op, r, data, size, NULL, NULL, NoMutex) :
               op \in {"RingBuffer_Put"}, r \in Pointers, data \in Pointers,
               size \in 0..(ring.size + 1)}
          \cup
          {Frame(op, r, data, size, NULL, bytesRead, NoMutex) :
               op \in {"RingBuffer_Get"}, r \in Pointers, data \in Pointers,
               size \in 0..(ring.size + 1), bytesRead \in Pointers}
          \cup
          {Frame("RingBuffer_Peek", "arg", NULL, 0, NULL, NULL, NoMutex)}
          \cup
          {Frame(op, r, NULL, 0, index, NULL, NoMutex) :
               op \in {"RingBuffer_IndexOf"}, r \in Pointers, index \in Pointers}
          \cup
          {Frame(op, r, data, size, index, NULL, NoMutex) :
               op \in {"RingBuffer_Find"}, r \in Pointers, data \in Pointers,
               size \in 0..MaxPattern, index \in Pointers})

Call ==
    /\ call.pc = "idle"
    /\ call' \in Calls
    /\ lock' = [lock EXCEPT !.takes = 0, !.releases = 0]
    /\ UNCHANGED <<ring, rop, ret, unread, overfilled, ctlVars, pairVars, mainVars, peer>>

\* RingBuffer_Init and RingBuffer_InitThreadSafe, entry to return
InitReturn ==
    /\ call.pc = "entry"
    /\ call.op \in {"RingBuffer_Init", "RingBuffer_InitThreadSafe"}
    /\ LET status == InitStatus(call)
           inited == IF status = SUCCESS
                     THEN InitFields(ring, [i \in 0..(call.size - 1) |-> 0], call.size)
                     ELSE ring
       IN  /\ ring' = IF call.op = "RingBuffer_InitThreadSafe"
                      THEN AttachMutex(inited, call, status)
                      ELSE inited
           /\ call' = [call EXCEPT !.pc = "idle", !.status = status]
    /\ UNCHANGED <<lock, rop, ret, unread, overfilled, ctlVars, pairVars, mainVars, peer>>

\* if (!ring || ...) return eRING_BUFFER_STATUS_INVALID_PARAM;
ParamsInvalid ==
    /\ call.pc = "entry"
    /\ ParamsRejected(call)
    /\ call' = [call EXCEPT !.pc = "idle", !.status = INVALID_PARAM]
    /\ UNCHANGED <<ring, lock, rop, ret, unread, overfilled, ctlVars, pairVars, mainVars, peer>>

ParamsValid ==
    /\ call.pc = "entry"
    /\ call.op \notin {"RingBuffer_Init", "RingBuffer_InitThreadSafe"}
    /\ ~ParamsRejected(call)
    /\ call' = [call EXCEPT !.pc = "RingLock"]
    /\ UNCHANGED <<ring, lock, rop, ret, unread, overfilled, ctlVars, pairVars, mainVars, peer>>

\* RingLock: take(lock) returns once the lock is free
RingLock ==
    /\ call.pc = "RingLock"
    /\ IF Takes(ring)
       THEN /\ ~lock.held
            /\ lock' = [lock EXCEPT !.held = TRUE, !.takes = @ + 1]
       ELSE UNCHANGED lock
    /\ call' = [call EXCEPT !.pc = "body"]
    /\ UNCHANGED <<ring, rop, ret, unread, overfilled, ctlVars, pairVars, mainVars, peer>>

\* const size_t free = ring->size - Peek(ring); if (size > free) ...
PutFree ==
    /\ call.pc = "body"
    /\ call.op = "RingBuffer_Put"
    /\ LET branch == PutBranch(call.size, ring.size - Peek(ring))
       IN  call' = [call EXCEPT !.pc = branch.pc, !.status = branch.status,
                                !.n = call.size]
    /\ UNCHANGED <<ring, lock, rop, ret, unread, overfilled, ctlVars, pairVars, mainVars, peer>>

\* ring->data[ring->head++] = *data++;
PutCopy ==
    /\ call.pc = "copy"
    /\ call.op = "RingBuffer_Put"
    /\ ring' = [ring EXCEPT !.data[ring.head] = CallerByte, !.head = @ + 1]
    /\ call' = [call EXCEPT !.pc = "wrap", !.n = @ - 1]
    /\ UNCHANGED <<lock, rop, ret, unread, overfilled, ctlVars, pairVars, mainVars, peer>>

\* if (ring->head == ring->size) ring->head = 0; and the loop test
PutWrap ==
    /\ call.pc = "wrap"
    /\ call.op = "RingBuffer_Put"
    /\ ring' = [ring EXCEPT !.head = IF @ = ring.size THEN 0 ELSE @]
    /\ call' = IF call.n = 0
               THEN [call EXCEPT !.pc = "RingUnlock", !.status = SUCCESS]
               ELSE [call EXCEPT !.pc = "copy"]
    /\ UNCHANGED <<lock, rop, ret, unread, overfilled, ctlVars, pairVars, mainVars, peer>>

\* available, bytesToRead, *bytesRead = bytesToRead. With bytesRead null the
\* store is undefined: the call traps, or goes on with nothing stored.
GetAvailable ==
    /\ call.pc = "body"
    /\ call.op = "RingBuffer_Get"
    /\ LET available   == Peek(ring)
           bytesToRead == IF call.size < available THEN call.size ELSE available
           next        == IF bytesToRead = 0 THEN "RingUnlock" ELSE "copy"
       IN  IF call.bytesRead # NULL
           THEN call' = [call EXCEPT !.pc = next, !.n = bytesToRead,
                                     !.wrote = bytesToRead]
           ELSE \/ call' = [call EXCEPT !.pc = "HardFault"]
                \/ call' = [call EXCEPT !.pc = next, !.n = bytesToRead]
    /\ UNCHANGED <<ring, lock, rop, ret, unread, overfilled, ctlVars, pairVars, mainVars, peer>>

\* *data++ = ring->data[ring->tail++];
GetCopy ==
    /\ call.pc = "copy"
    /\ call.op = "RingBuffer_Get"
    /\ ring' = [ring EXCEPT !.tail = @ + 1]
    /\ call' = [call EXCEPT !.pc = "wrap", !.n = @ - 1,
                            !.out = Append(@, ring.data[ring.tail])]
    /\ UNCHANGED <<lock, rop, ret, unread, overfilled, ctlVars, pairVars, mainVars, peer>>

\* if (ring->tail == ring->size) ring->tail = 0; and the loop test
GetWrap ==
    /\ call.pc = "wrap"
    /\ call.op = "RingBuffer_Get"
    /\ ring' = [ring EXCEPT !.tail = IF @ = ring.size THEN 0 ELSE @]
    /\ call' = [call EXCEPT !.pc = IF call.n = 0 THEN "RingUnlock" ELSE "copy"]
    /\ UNCHANGED <<lock, rop, ret, unread, overfilled, ctlVars, pairVars, mainVars, peer>>

\* size = Peek(ring);
PeekBody ==
    /\ call.pc = "body"
    /\ call.op = "RingBuffer_Peek"
    /\ call' = [call EXCEPT !.pc = "RingUnlock", !.wrote = Peek(ring)]
    /\ UNCHANGED <<ring, lock, rop, ret, unread, overfilled, ctlVars, pairVars, mainVars, peer>>

\* the scan loop of RingBuffer_IndexOf and RingBuffer_Find
ScanBody ==
    /\ call.pc = "body"
    /\ call.op \in {"RingBuffer_IndexOf", "RingBuffer_Find"}
    /\ LET res == IF call.op = "RingBuffer_IndexOf"
                  THEN RingBuffer_IndexOf(ring, CallerByte)
                  ELSE RingBuffer_Find(ring, CallerPattern(call.size))
       IN  /\ ring' = [res.ring EXCEPT !.mutex = ring.mutex]
           /\ call' = [call EXCEPT !.pc = "RingUnlock", !.status = res.status,
                                   !.wrote = res.index]
    /\ UNCHANGED <<lock, rop, ret, unread, overfilled, ctlVars, pairVars, mainVars, peer>>

\* RingUnlock, and the return (Get sets its status after the unlock)
RingUnlock ==
    /\ call.pc = "RingUnlock"
    /\ IF Releases(ring)
       THEN lock' = [lock EXCEPT !.held = FALSE, !.releases = @ + 1]
       ELSE UNCHANGED lock
    /\ call' = [call EXCEPT !.pc = "idle",
                            !.status = IF call.op = "RingBuffer_Get" THEN SUCCESS ELSE @]
    /\ UNCHANGED <<ring, rop, ret, unread, overfilled, ctlVars, pairVars, mainVars, peer>>

CallNext ==
    \/ Call
    \/ InitReturn
    \/ ParamsInvalid
    \/ ParamsValid
    \/ RingLock
    \/ PutFree
    \/ PutCopy
    \/ PutWrap
    \/ GetAvailable
    \/ GetCopy
    \/ GetWrap
    \/ PeekBody
    \/ ScanBody
    \/ RingUnlock

CallSpec == CallInit /\ [][CallNext]_vars

\* the statements of a call in progress
CallStep ==
    \/ InitReturn
    \/ ParamsInvalid
    \/ ParamsValid
    \/ RingLock
    \/ PutFree
    \/ PutCopy
    \/ PutWrap
    \/ GetAvailable
    \/ GetCopy
    \/ GetWrap
    \/ PeekBody
    \/ ScanBody
    \/ RingUnlock

\* the caller's context keeps running: a statement that can run does run
FairCallSpec == CallSpec /\ WF_vars(CallStep)

(***************************************************************************)
(* SharedSpec: one ring, initialised by RingBuffer_InitThreadSafe with a   *)
(* complete lock strategy, and two contexts that run statement by          *)
(* statement in any order: a producer that calls RingBuffer_Put (its frame *)
(* is call) and a consumer that calls RingBuffer_Get (its frame is peer).  *)
(* Both pass valid arguments. take(lock) blocks while the lock is held.    *)
(***************************************************************************)
\* a frame of SharedSpec: data is what the producer has still to copy, arg
\* the data it was called with, size the consumer's size argument
SharedFrame(op, data, size) ==
    [pc |-> "RingLock", op |-> op, arg |-> data, data |-> data, size |-> size,
     n |-> 0, out |-> <<>>, status |-> UNKNOWN]

SharedIdle == [SharedFrame("none", <<>>, 0) EXCEPT !.pc = "idle"]

SharedInit ==
    /\ \E size \in 1..(MaxSize - 1) :
           ring = [InitFields(RingZeroed, [i \in 0..(size - 1) |-> 0], size)
                       EXCEPT !.mutex = FullMutex]
    /\ lock = LockFree
    /\ call = SharedIdle
    /\ peer = SharedIdle
    /\ rop = [op |-> "none", len |-> 0]
    /\ ret = [status |-> UNKNOWN, bytesRead |-> NotWritten, out |-> <<>>]
    /\ unread = <<>>
    /\ overfilled = FALSE
    /\ CtlStart
    /\ PairIdle
    /\ s_command = [voltage |-> 0, current |-> CONFIG_CURRENT_LIMIT]
    /\ s_bytesReceived = 0
    /\ s_lastBytesReceived = 0
    /\ s_state = [ccMode |-> FALSE]
    /\ passed = [voltage |-> 0, current |-> 0, by |-> "none"]

\* RingBuffer_Put(ring, data, size) is called, and passes its parameter check
ProducerCall ==
    /\ call.pc = "idle"
    /\ \E S \in SeqsUpTo(ring.size) \ {<<>>} :
           /\ Len(unread) + Len(S) < ring.size + MaxOver
           /\ call' = SharedFrame("RingBuffer_Put", S, Len(S))
    /\ UNCHANGED <<ring, lock, peer, rop, ret, unread, overfilled, ctlVars, pairVars,
                   mainVars>>

\* RingLock(ring)
ProducerLock ==
    /\ call.pc = "RingLock"
    /\ Takes(ring)
    /\ ~lock.held
    /\ lock' = [lock EXCEPT !.held = TRUE, !.takes = 1]
    /\ call' = [call EXCEPT !.pc = "body"]
    /\ UNCHANGED <<ring, peer, rop, ret, unread, overfilled, ctlVars, pairVars,
                   mainVars>>

\* const size_t free = ring->size - Peek(ring); if (size > free) ...
ProducerFree ==
    /\ call.pc = "body"
    /\ LET branch == PutBranch(call.size, ring.size - Peek(ring))
       IN  call' = [call EXCEPT !.pc = branch.pc, !.status = branch.status,
                                !.n = call.size]
    /\ UNCHANGED <<ring, lock, peer, rop, ret, unread, overfilled, ctlVars, pairVars,
                   mainVars>>

\* ring->data[ring->head++] = *data++;
ProducerCopy ==
    /\ call.pc = "copy"
    /\ ring' = [ring EXCEPT !.data[ring.head] = Head(call.data), !.head = @ + 1]
    /\ call' = [call EXCEPT !.pc = "wrap", !.n = @ - 1, !.data = Tail(@)]
    /\ UNCHANGED <<lock, peer, rop, ret, unread, overfilled, ctlVars, pairVars,
                   mainVars>>

\* if (ring->head == ring->size) ring->head = 0; and the loop test
ProducerWrap ==
    /\ call.pc = "wrap"
    /\ ring' = [ring EXCEPT !.head = IF @ = ring.size THEN 0 ELSE @]
    /\ call' = IF call.n = 0
               THEN [call EXCEPT !.pc = "RingUnlock", !.status = SUCCESS]
               ELSE [call EXCEPT !.pc = "copy"]
    /\ UNCHANGED <<lock, peer, rop, ret, unread, overfilled, ctlVars, pairVars,
                   mainVars>>

\* RingUnlock(ring); return status; the bytes of a successful Put are accepted
ProducerUnlock ==
    /\ call.pc = "RingUnlock"
    /\ Releases(ring)
    /\ lock' = [lock EXCEPT !.held = FALSE, !.releases = 1]
    /\ call' = [call EXCEPT !.pc = "idle"]
    /\ unread' = IF call.status = SUCCESS THEN unread \o call.arg ELSE unread
    /\ overfilled' = (overfilled \/ Len(unread') > ring.size)
    /\ UNCHANGED <<ring, peer, rop, ret, ctlVars, pairVars, mainVars>>

\* RingBuffer_Get(ring, data, size, bytesRead) is called, and passes its
\* parameter check
ConsumerCall ==
    /\ peer.pc = "idle"
    /\ \E size \in 1..ring.size : peer' = SharedFrame("RingBuffer_Get", <<>>, size)
    /\ UNCHANGED <<ring, lock, call, rop, ret, unread, overfilled, ctlVars, pairVars,
                   mainVars>>

\* RingLock(ring)
ConsumerLock ==
    /\ peer.pc = "RingLock"
    /\ Takes(ring)
    /\ ~lock.held
    /\ lock' = [lock EXCEPT !.held = TRUE, !.takes = 1]
    /\ peer' = [peer EXCEPT !.pc = "body"]
    /\ UNCHANGED <<ring, call, rop, ret, unread, overfilled, ctlVars, pairVars,
                   mainVars>>

\* available, bytesToRead, *bytesRead = bytesToRead, and the loop test
ConsumerAvailable ==
    /\ peer.pc = "body"
    /\ LET available   == Peek(ring)
           bytesToRead == IF peer.size < available THEN peer.size ELSE available
       IN  peer' = [peer EXCEPT !.pc = IF bytesToRead = 0 THEN "RingUnlock" ELSE "copy",
                                !.n = bytesToRead]
    /\ UNCHANGED <<ring, lock, call, rop, ret, unread, overfilled, ctlVars, pairVars,
                   mainVars>>

\* *data++ = ring->data[ring->tail++];
ConsumerCopy ==
    /\ peer.pc = "copy"
    /\ ring' = [ring EXCEPT !.tail = @ + 1]
    /\ peer' = [peer EXCEPT !.pc = "wrap", !.n = @ - 1,
                            !.out = Append(@, ring.data[ring.tail])]
    /\ UNCHANGED <<lock, call, rop, ret, unread, overfilled, ctlVars, pairVars,
                   mainVars>>

\* if (ring->tail == ring->size) ring->tail = 0; and the loop test
ConsumerWrap ==
    /\ peer.pc = "wrap"
    /\ ring' = [ring EXCEPT !.tail = IF @ = ring.size THEN 0 ELSE @]
    /\ peer' = [peer EXCEPT !.pc = IF peer.n = 0 THEN "RingUnlock" ELSE "copy"]
    /\ UNCHANGED <<lock, call, rop, ret, unread, overfilled, ctlVars, pairVars,
                   mainVars>>

\* RingUnlock(ring); status = eRING_BUFFER_STATUS_SUCCESS; return status;
ConsumerUnlock ==
    /\ peer.pc = "RingUnlock"
    /\ Releases(ring)
    /\ lock' = [lock EXCEPT !.held = FALSE, !.releases = 1]
    /\ peer' = [peer EXCEPT !.pc = "idle", !.status = SUCCESS]
    /\ unread' = SubSeq(unread, Len(peer.out) + 1, Len(unread))
    /\ UNCHANGED <<ring, call, rop, ret, overfilled, ctlVars, pairVars, mainVars>>

SharedNext ==
    \/ ProducerCall
    \/ ProducerLock
    \/ ProducerFree
    \/ ProducerCopy
    \/ ProducerWrap
    \/ ProducerUnlock
    \/ ConsumerCall
    \/ ConsumerLock
    \/ ConsumerAvailable
    \/ ConsumerCopy
    \/ ConsumerWrap
    \/ ConsumerUnlock

SharedSpec == SharedInit /\ [][SharedNext]_vars

(***************************************************************************)
(* Spec: the controller. Tick is the ADC interrupt, which preempts the     *)
(* main context between any two of its steps and runs to completion.       *)
(***************************************************************************)
Init == CtlStart /\ RingIdle /\ PairIdle /\ MainIdle

Tick ==
    \E vref \in VrefSamples, current \in CurrentSamples, voltage \in VoltageSamples :
        /\ Enabled(boost) => nTicks < MaxTicks
        /\ boost' = ADC1_IRQHandler(boost, vref, current, voltage)
        /\ nTicks' = IF Enabled(boost) THEN nTicks + 1 ELSE 0
        /\ cop' = "Tick"
        /\ pending' = FALSE
        /\ UNCHANGED <<mpc, mlocal, ringVars, pairVars, mainVars, peer>>

CalibrateZero ==
    /\ mpc = "Calibrate"
    /\ boost' = CalibrateTarget(boost)
    /\ mpc' = "Delay_Ms"
    /\ cop' = "Calibrate"
    /\ pending' = TRUE
    /\ UNCHANGED <<mlocal, nTicks, ringVars, pairVars, mainVars, peer>>

\* Delay_Ms(100) spans thousands of conversions (the ADC is triggered every
\* PWM period), so the offset is read after at least one Tick
CalibrateDone ==
    /\ mpc = "Delay_Ms"
    /\ ~pending
    /\ boost' = CalibrateOffset(boost)
    /\ mpc' = "main"
    /\ cop' = "Calibrate"
    /\ UNCHANGED <<mlocal, pending, nTicks, ringVars, pairVars, mainVars, peer>>

SetVoltageTargetConvert ==
    /\ mpc = "main"
    /\ \E millivolts \in MillivoltArgs : mlocal' \in MillivoltsToADC(boost, millivolts)
    /\ mpc' = "store"
    /\ cop' = "MillivoltsToADC"
    /\ UNCHANGED <<boost, pending, nTicks, ringVars, pairVars, mainVars, peer>>

SetVoltageTargetStore ==
    /\ mpc = "store"
    /\ boost' = BoostPWM_SetVoltageTarget(boost, mlocal)
    /\ mpc' = "main"
    /\ mlocal' = 0
    /\ cop' = "BoostPWM_SetVoltageTarget"
    /\ pending' = TRUE
    /\ UNCHANGED <<nTicks, ringVars, pairVars, mainVars, peer>>

SetCurrentLimit ==
    /\ mpc = "main"
    /\ \E milliamps \in MilliampArgs : boost' = BoostPWM_SetCurrentLimit(boost, milliamps)
    /\ cop' = "BoostPWM_SetCurrentLimit"
    /\ pending' = TRUE
    /\ UNCHANGED <<mpc, mlocal, nTicks, ringVars, pairVars, mainVars, peer>>

Next ==
    \/ Tick
    \/ CalibrateZero
    \/ CalibrateDone
    \/ SetVoltageTargetConvert
    \/ SetVoltageTargetStore
    \/ SetCurrentLimit

Spec == Init /\ [][Next]_vars

(***************************************************************************)
(* PairSpec: two controllers, runA and runB. Each first runs its own       *)
(* history of target-setting calls and Ticks; from then on both receive    *)
(* the same calls and the same samples. phase is "disabled" once both have *)
(* taken a Tick with a zero target, and "first" right after the first      *)
(* Tick that both then take with both targets nonzero.                     *)
(***************************************************************************)
PairVoltageSamples == {108}
PairCurrentSamples == {0, ADC_MAX - 1}
PairVrefSamples    == {245}
PairMillivoltArgs  == {0, 5000}
PairMilliampArgs   == {0, 100}

\* the controller after BoostPWM_Init, calibrated at zero current
RunStart ==
    [c |-> [BoostReset EXCEPT !.s_vref = CHOOSE v \in PairVrefSamples : TRUE],
     n |-> 0, wound |-> 0]

RunSetVoltage(run, millivolts) ==
    { [run EXCEPT !.c = BoostPWM_SetVoltageTarget(run.c, raw)] :
          raw \in MillivoltsToADC(run.c, millivolts) }

RunSetCurrent(run, milliamps) ==
    [run EXCEPT !.c = BoostPWM_SetCurrentLimit(run.c, milliamps)]

RunTick(run, vref, current, voltage) ==
    [run EXCEPT !.c = ADC1_IRQHandler(run.c, vref, current, voltage),
                !.n = IF Enabled(run.c) THEN run.n + 1 ELSE run.n]

RunSteps(run) ==
    UNION { RunSetVoltage(run, mv) : mv \in PairMillivoltArgs }
      \cup { RunSetCurrent(run, ma) : ma \in PairMilliampArgs }
      \cup { RunTick(run, r, i, v) :
                 r \in PairVrefSamples, i \in PairCurrentSamples, v \in PairVoltageSamples }

PairInit ==
    /\ runA = RunStart
    /\ runB = RunStart
    /\ phase = "history"
    /\ CtlStart
    /\ RingIdle
    /\ MainIdle

HistoryA ==
    /\ phase = "history"
    /\ runA' \in {r \in RunSteps(runA) : r.n <= MaxTicks}
    /\ UNCHANGED <<runB, phase, ringVars, ctlVars, mainVars, peer>>

HistoryB ==
    /\ phase = "history"
    /\ runB' \in {r \in RunSteps(runB) : r.n <= MaxTicks}
    /\ UNCHANGED <<runA, phase, ringVars, ctlVars, mainVars, peer>>

HistoryEnds ==
    /\ phase = "history"
    /\ phase' = "joint"
    /\ runA' = [runA EXCEPT !.wound = runA.c.eI]
    /\ runB' = [runB EXCEPT !.wound = runB.c.eI]
    /\ UNCHANGED <<ringVars, ctlVars, mainVars, peer>>

JointSetVoltage ==
    /\ phase \in {"joint", "disabled"}
    /\ \E millivolts \in PairMillivoltArgs :
           /\ runA' \in RunSetVoltage(runA, millivolts)
           /\ runB' \in RunSetVoltage(runB, millivolts)
    /\ UNCHANGED <<phase, ringVars, ctlVars, mainVars, peer>>

JointSetCurrent ==
    /\ phase \in {"joint", "disabled"}
    /\ \E milliamps \in PairMilliampArgs :
           /\ runA' = RunSetCurrent(runA, milliamps)
           /\ runB' = RunSetCurrent(runB, milliamps)
    /\ UNCHANGED <<phase, ringVars, ctlVars, mainVars, peer>>

JointTick ==
    /\ phase \in {"joint", "disabled"}
    /\ \E vref \in PairVrefSamples, current \in PairCurrentSamples,
          voltage \in PairVoltageSamples :
           /\ runA' = RunTick(runA, vref, current, voltage)
           /\ runB' = RunTick(runB, vref, current, voltage)
    /\ runA'.n <= MaxTicks + 1
    /\ runB'.n <= MaxTicks + 1
    /\ phase' = IF ~Enabled(runA.c) /\ ~Enabled(runB.c) THEN "disabled"
                ELSE IF phase = "disabled" /\ Enabled(runA.c) /\ Enabled(runB.c)
                THEN "first"
                ELSE "joint"
    /\ UNCHANGED <<ringVars, ctlVars, mainVars, peer>>

PairNext ==
    \/ HistoryA
    \/ HistoryB
    \/ HistoryEnds
    \/ JointSetVoltage
    \/ JointSetCurrent
    \/ JointTick

PairSpec == PairInit /\ [][PairNext]_vars

(***************************************************************************)
(* LimitSpec: the controller after Calibrate and a first voltage target,   *)
(* with BoostPWM_SetCurrentLimit called on arguments up to and beyond the  *)
(* 16 bits of MilliampsToADC's result, as the console commands of main.c   *)
(* produce them.                                                           *)
(***************************************************************************)
WideMilliampArgs == {0, 1, 100, 1000, 64513, 65535, 65536, 65636}

\* calibrated on a current sample, then BoostPWM_SetVoltageTarget(5000)
LimitInit ==
    /\ \E current \in PairCurrentSamples, vref \in PairVrefSamples :
           \E raw \in MillivoltsToADC([BoostReset EXCEPT !.s_vref = vref], 5000) :
               boost = [BoostReset EXCEPT !.s_vref = vref,
                                          !.s_feedbackIRaw = current,
                                          !.s_currentOffset = ToInt16(current),
                                          !.s_targetVRaw = raw]
    /\ mpc = "main"
    /\ mlocal = 0
    /\ cop = "BoostPWM_SetVoltageTarget"
    /\ pending = TRUE
    /\ nTicks = 0
    /\ RingIdle
    /\ PairIdle
    /\ MainIdle

LimitSetCurrentLimit ==
    /\ \E milliamps \in WideMilliampArgs :
           /\ boost' = BoostPWM_SetCurrentLimit(boost, milliamps)
           /\ mlocal' = milliamps
    /\ cop' = "BoostPWM_SetCurrentLimit"
    /\ pending' = TRUE
    /\ UNCHANGED <<mpc, nTicks, ringVars, pairVars, mainVars, peer>>

LimitTick ==
    \E vref \in PairVrefSamples, current \in PairCurrentSamples,
       voltage \in PairVoltageSamples :
        /\ Enabled(boost) => nTicks < MaxTicks
        /\ boost' = ADC1_IRQHandler(boost, vref, current, voltage)
        /\ nTicks' = IF Enabled(boost) THEN nTicks + 1 ELSE 0
        /\ cop' = "Tick"
        /\ pending' = FALSE
        /\ UNCHANGED <<mpc, mlocal, ringVars, pairVars, mainVars, peer>>

LimitNext == LimitSetCurrentLimit \/ LimitTick

LimitSpec == LimitInit /\ [][LimitNext]_vars

(***************************************************************************)
(* WindupSpec: the enabled controller over long runs of Ticks. A run of    *)
(* Ticks on the same samples changes the controller only through the       *)
(* integral, which grows by the same error on each Tick; WindupRun takes   *)
(* as many such Ticks at once as the int of the integral holds.            *)
(***************************************************************************)
\* calibrated at zero current, then a voltage target and a current limit
WindupInit ==
    /\ \E vref \in PairVrefSamples, milliamps \in MilliampArgs \ {0},
          millivolts \in MillivoltArgs \ {0} :
           \E raw \in MillivoltsToADC([BoostReset EXCEPT !.s_vref = vref], millivolts) :
               boost = BoostPWM_SetCurrentLimit(
                           [BoostReset EXCEPT !.s_vref = vref, !.s_targetVRaw = raw],
                           milliamps)
    /\ mpc = "main"
    /\ mlocal = 0
    /\ cop = "BoostPWM_SetCurrentLimit"
    /\ pending = TRUE
    /\ nTicks = 0
    /\ RingIdle
    /\ PairIdle
    /\ MainIdle

\* the error a Tick on these samples regulates on
RunError(c, current, voltage) ==
    Min(SubAsInt(c.s_targetVRaw, voltage), SubAsInt(c.s_targetIRaw, current))

\* n Ticks in a row on the same samples, none of which overflows the integral:
\* the last of them finds the integral grown by the n - 1 before it
TickRun(c, vref, current, voltage, n) ==
    ADC1_IRQHandler([c EXCEPT !.eI = c.eI + (n - 1) * RunError(c, current, voltage)],
                    vref, current, voltage)

WindupTick ==
    \E vref \in PairVrefSamples, current \in CurrentSamples, voltage \in VoltageSamples :
        /\ nTicks < MaxTicks
        /\ boost' = ADC1_IRQHandler(boost, vref, current, voltage)
        /\ nTicks' = nTicks + 1
        /\ cop' = "Tick"
        /\ pending' = FALSE
        /\ UNCHANGED <<mpc, mlocal, ringVars, pairVars, mainVars, peer>>

WindupRun ==
    \E vref \in PairVrefSamples, current \in CurrentSamples, voltage \in VoltageSamples :
        LET e == RunError(boost, current, voltage)
            n == (INT_MAX - boost.eI) \div e
        IN  /\ nTicks < MaxTicks
            /\ boost.eI >= 0
            /\ e > 0
            /\ n >= 1
            /\ boost' = TickRun(boost, vref, current, voltage, n)
            /\ nTicks' = nTicks + 1
            /\ cop' = "TickRun"
            /\ pending' = FALSE
            /\ UNCHANGED <<mpc, mlocal, ringVars, pairVars, mainVars, peer>>

WindupNext == WindupTick \/ WindupRun

WindupSpec == WindupInit /\ [][WindupNext]_vars

(***************************************************************************)
(* UsbSpec: main's loop with no debugger attached, one statement per step, *)
(* and usb_handle_user_data, which runs in the USB interrupt between any   *)
(* two statements of the loop and to completion.                           *)
(***************************************************************************)
\* the values a host sends: within both limits, above the current limit only,
\* above both
UsbValues == {500, 5000, 20000}

\* the packets a host sends: [len, head, cmd, value], head = data[0],
\* cmd = data[1], value = *(uint32_t *)(data + 2)
Packets == [len : {5, 6, 8}, head : {170, 0}, cmd : {0, 1, 2}, value : UsbValues]

\* main() up to its loop: BoostPWM_Init (calibrated at zero current), then
\* BoostPWM_SetVoltageTarget(s_command.voltage) and
\* BoostPWM_SetCurrentLimit(s_command.current)
MainStart ==
    /\ s_command = [voltage |-> 0, current |-> CONFIG_CURRENT_LIMIT]
    /\ s_bytesReceived = 0
    /\ s_lastBytesReceived = 0
    /\ s_state = [ccMode |-> FALSE]
    /\ passed = [voltage |-> 0, current |-> CONFIG_CURRENT_LIMIT, by |-> "main"]
    /\ \E vref \in PairVrefSamples :
           boost = BoostPWM_SetCurrentLimit(
                       BoostPWM_SetVoltageTarget([BoostReset EXCEPT !.s_vref = vref], 0),
                       CONFIG_CURRENT_LIMIT)
    /\ mlocal = 0
    /\ cop = "BoostPWM_SetCurrentLimit"
    /\ pending = TRUE
    /\ nTicks = 0
    /\ peer = NoCall

UsbInit == MainStart /\ mpc = "test" /\ RingIdle /\ PairIdle

\* usb_handle_user_data
usb_handle_user_data ==
    \E packet \in Packets :
        /\ s_bytesReceived + packet.len <= MaxReceived
        /\ IF packet.len >= 6 /\ packet.head = 170
           THEN /\ s_command' =
                      IF packet.cmd = 1 THEN [s_command EXCEPT !.voltage = packet.value]
                      ELSE IF packet.cmd = 2 THEN [s_command EXCEPT !.current = packet.value]
                      ELSE s_command
                /\ s_bytesReceived' = s_bytesReceived + packet.len
           ELSE UNCHANGED <<s_command, s_bytesReceived>>
        /\ UNCHANGED <<s_lastBytesReceived, s_state, passed, peer, ringVars, ctlVars,
                       pairVars>>

\* if (s_bytesReceived != s_lastBytesReceived)
MainTest ==
    /\ mpc = "test"
    /\ mpc' = IF s_bytesReceived # s_lastBytesReceived THEN "clampVoltage" ELSE "GetState"
    /\ UNCHANGED <<boost, mlocal, cop, pending, nTicks, mainVars, peer, ringVars,
                   pairVars>>

\* if (s_command.voltage > CONFIG_VOLTAGE_LIMIT) s_command.voltage = CONFIG_VOLTAGE_LIMIT;
MainClampVoltage ==
    /\ mpc = "clampVoltage"
    /\ s_command' = IF s_command.voltage > CONFIG_VOLTAGE_LIMIT
                    THEN [s_command EXCEPT !.voltage = CONFIG_VOLTAGE_LIMIT]
                    ELSE s_command
    /\ mpc' = "clampCurrent"
    /\ UNCHANGED <<boost, mlocal, cop, pending, nTicks, s_bytesReceived,
                   s_lastBytesReceived, s_state, passed, peer, ringVars, pairVars>>

\* if (s_command.current > CONFIG_CURRENT_LIMIT) s_command.voltage = CONFIG_CURRENT_LIMIT;
MainClampCurrent ==
    /\ mpc = "clampCurrent"
    /\ s_command' = IF s_command.current > CONFIG_CURRENT_LIMIT
                    THEN [s_command EXCEPT !.voltage = CONFIG_CURRENT_LIMIT]
                    ELSE s_command
    /\ mpc' = "SetVoltageTarget"
    /\ UNCHANGED <<boost, mlocal, cop, pending, nTicks, s_bytesReceived,
                   s_lastBytesReceived, s_state, passed, peer, ringVars, pairVars>>

\* BoostPWM_SetVoltageTarget(s_command.voltage);
MainSetVoltageTarget ==
    /\ mpc = "SetVoltageTarget"
    /\ \E raw \in MillivoltsToADC(boost, s_command.voltage) :
           boost' = BoostPWM_SetVoltageTarget(boost, raw)
    /\ passed' = [passed EXCEPT !.voltage = s_command.voltage, !.by = "usb"]
    /\ mpc' = "SetCurrentLimit"
    /\ cop' = "BoostPWM_SetVoltageTarget"
    /\ pending' = TRUE
    /\ UNCHANGED <<mlocal, nTicks, s_command, s_bytesReceived, s_lastBytesReceived,
                   s_state, peer, ringVars, pairVars>>

\* BoostPWM_SetCurrentLimit(s_command.current);
MainSetCurrentLimit ==
    /\ mpc = "SetCurrentLimit"
    /\ boost' = BoostPWM_SetCurrentLimit(boost, s_command.current)
    /\ passed' = [passed EXCEPT !.current = s_command.current, !.by = "usb"]
    /\ mpc' = "mark"
    /\ cop' = "BoostPWM_SetCurrentLimit"
    /\ pending' = TRUE
    /\ UNCHANGED <<mlocal, nTicks, s_command, s_bytesReceived, s_lastBytesReceived,
                   s_state, peer, ringVars, pairVars>>

\* s_lastBytesReceived = s_bytesReceived;
MainMark ==
    /\ mpc = "mark"
    /\ s_lastBytesReceived' = s_bytesReceived
    /\ mpc' = "GetState"
    /\ UNCHANGED <<boost, mlocal, cop, pending, nTicks, s_command, s_bytesReceived,
                   s_state, passed, peer, ringVars, pairVars>>

\* BoostPWM_GetState(&s_state); ... if (!debuggerAttached) continue;
MainGetState ==
    /\ mpc = "GetState"
    /\ s_state' = [ccMode |-> boost.s_ccMode = 1]
    /\ mpc' = "test"
    /\ UNCHANGED <<boost, mlocal, cop, pending, nTicks, s_command, s_bytesReceived,
                   s_lastBytesReceived, passed, peer, ringVars, pairVars>>

MainStep ==
    \/ MainTest
    \/ MainClampVoltage
    \/ MainClampCurrent
    \/ MainSetVoltageTarget
    \/ MainSetCurrentLimit
    \/ MainMark
    \/ MainGetState

UsbNext == usb_handle_user_data \/ MainStep

UsbSpec == UsbInit /\ [][UsbNext]_vars

\* the loop keeps running: main is never blocked, interrupts return
FairUsbSpec == UsbSpec /\ WF_vars(MainStep)

(***************************************************************************)
(* ConsoleSpec: main's loop with a debugger attached and no USB traffic:   *)
(* each iteration copies the converter's state, reads one key and acts on  *)
(* it. The ADC interrupt runs between iterations' statements.              *)
(***************************************************************************)
\* what getchar returns: the keys of the switch (of the digits, the lowest and
\* the highest), "EOF" for -1, and one key the switch ignores
Keys == {"0", "+", "=", "-", "EOF", "c", "v", "x", "1", "9"}

\* c - '0'
DigitOf == [c \in {"1", "2", "3", "4", "5", "6", "7", "8", "9"} |->
               CASE c = "1" -> 1 [] c = "2" -> 2 [] c = "3" -> 3 [] c = "4" -> 4
                 [] c = "5" -> 5 [] c = "6" -> 6 [] c = "7" -> 7 [] c = "8" -> 8
                 [] c = "9" -> 9]

ConsoleInit == MainStart /\ mpc = "GetState" /\ RingIdle /\ PairIdle

\* a key that sets s_command.current to milliamps and passes it on
KeySetsCurrent(milliamps) ==
    /\ s_command' = [s_command EXCEPT !.current = milliamps]
    /\ boost' = BoostPWM_SetCurrentLimit(boost, milliamps)
    /\ passed' = [passed EXCEPT !.current = milliamps, !.by = "console"]
    /\ cop' = "BoostPWM_SetCurrentLimit"
    /\ pending' = TRUE
    /\ UNCHANGED s_state

\* a key that sets s_command.voltage to millivolts and passes it on
KeySetsVoltage(millivolts) ==
    /\ s_command' = [s_command EXCEPT !.voltage = millivolts]
    /\ \E raw \in MillivoltsToADC(boost, millivolts) :
           boost' = BoostPWM_SetVoltageTarget(boost, raw)
    /\ passed' = [passed EXCEPT !.voltage = millivolts, !.by = "console"]
    /\ cop' = "BoostPWM_SetVoltageTarget"
    /\ pending' = TRUE
    /\ UNCHANGED s_state

\* a key that adds to the command of the mode s_state shows
KeyAdds(milliamps, millivolts) ==
    IF s_state.ccMode
    THEN KeySetsCurrent(AddInt(s_command.current, milliamps))
    ELSE KeySetsVoltage(AddInt(s_command.voltage, millivolts))

\* switch (c)
KeySwitch(c) ==
    CASE c = "0" ->
           /\ \E raw \in MillivoltsToADC(boost, 0) :
                  boost' = BoostPWM_SetCurrentLimit(BoostPWM_SetVoltageTarget(boost, raw),
                                                    CONFIG_CURRENT_LIMIT)
           /\ passed' = [voltage |-> 0, current |-> CONFIG_CURRENT_LIMIT,
                         by |-> "console"]
           /\ s_command' = [voltage |-> 0, current |-> CONFIG_CURRENT_LIMIT]
           /\ cop' = "BoostPWM_SetCurrentLimit"
           /\ pending' = TRUE
           /\ UNCHANGED s_state
      [] c \in {"+", "="} -> KeyAdds(25, 50)
      [] c = "-" -> KeyAdds(-25, -50)
      [] c = "c" ->
           /\ s_state' = [s_state EXCEPT !.ccMode = TRUE]
           /\ UNCHANGED <<s_command, boost, passed, cop, pending>>
      [] c = "v" ->
           /\ s_state' = [s_state EXCEPT !.ccMode = FALSE]
           /\ UNCHANGED <<s_command, boost, passed, cop, pending>>
      [] c \in DOMAIN DigitOf ->
           IF s_state.ccMode
           THEN KeySetsCurrent(DigitOf[c] * 100)
           ELSE KeySetsVoltage(DigitOf[c] * 1000)
      [] OTHER -> UNCHANGED <<s_command, s_state, boost, passed, cop, pending>>

\* the loop down to getchar: the USB test fails, BoostPWM_GetState(&s_state)
ConsoleGetState ==
    /\ mpc = "GetState"
    /\ s_bytesReceived = s_lastBytesReceived
    /\ s_state' = [ccMode |-> boost.s_ccMode = 1]
    /\ mpc' = "getchar"
    /\ UNCHANGED <<boost, mlocal, cop, pending, nTicks, s_command, s_bytesReceived,
                   s_lastBytesReceived, passed, peer, ringVars, pairVars>>

\* int c = getchar(); switch (c) ...; Delay_Ms(100);
ConsoleKey ==
    /\ mpc = "getchar"
    /\ mlocal < MaxKeys
    /\ \E c \in Keys : KeySwitch(c)
    /\ mlocal' = mlocal + 1
    /\ mpc' = "GetState"
    /\ UNCHANGED <<nTicks, s_bytesReceived, s_lastBytesReceived, peer, ringVars,
                   pairVars>>

\* '+' held down over the iterations it takes to bring the command of the
\* current mode up to its limit, the mode staying as it is: as many times
\* ConsoleGetState and ConsoleKey with '+', of which the last call's argument
\* is the one that stays
ConsoleKeyHeld ==
    /\ mpc = "getchar"
    /\ mlocal < MaxKeys
    /\ IF s_state.ccMode
       THEN /\ s_command.current \in 0..(CONFIG_CURRENT_LIMIT - 25)
            /\ KeySetsCurrent(s_command.current
                                 + 25 * ((CONFIG_CURRENT_LIMIT - s_command.current) \div 25))
       ELSE /\ s_command.voltage \in 0..(CONFIG_VOLTAGE_LIMIT - 50)
            /\ KeySetsVoltage(s_command.voltage
                                 + 50 * ((CONFIG_VOLTAGE_LIMIT - s_command.voltage) \div 50))
    /\ mlocal' = mlocal + 1
    /\ mpc' = "GetState"
    /\ UNCHANGED <<nTicks, s_bytesReceived, s_lastBytesReceived, peer, ringVars,
                   pairVars>>

\* the ADC interrupt
ConsoleTick ==
    \E vref \in PairVrefSamples, current \in PairCurrentSamples,
       voltage \in PairVoltageSamples :
        /\ Enabled(boost) => nTicks < MaxTicks
        /\ boost' = ADC1_IRQHandler(boost, vref, current, voltage)
        /\ nTicks' = IF Enabled(boost) THEN nTicks + 1 ELSE 0
        /\ cop' = "Tick"
        /\ pending' = FALSE
        /\ UNCHANGED <<mpc, mlocal, mainVars, peer, ringVars, pairVars>>

ConsoleNext == ConsoleGetState \/ ConsoleKey \/ ConsoleKeyHeld \/ ConsoleTick

ConsoleSpec == ConsoleInit /\ [][ConsoleNext]_vars

(***************************************************************************)
(*                       Properties of the controller                      *)
(***************************************************************************)
\* the errors of the Tick that has just run, as signed values
ErrV(c) == c.s_targetVRaw - c.s_feedbackVRaw
ErrI(c) == c.s_targetIRaw - c.s_feedbackIRaw
ZeroTarget(c) == c.s_targetVRaw = 0 \/ c.s_targetIRaw = 0
Disabled(c) == c.s_pwmDuty = MIN_DUTY /\ c.lastEP = 0 /\ c.eI = 0

\* C1: in every reachable state the committed duty s_pwmDuty lies within
\* [MIN_DUTY, MAX_DUTY], whatever the targets and the samples were.
DutyWithinLimits == boost.s_pwmDuty \in MIN_DUTY..MAX_DUTY

\* C1 witness: an enabled Tick has run on a current sample saturated at the ADC
\* maximum, with an integral already wound negative, and committed MIN_DUTY.
DutySaturatedSample ==
    /\ cop = "Tick"
    /\ ~ZeroTarget(boost)
    /\ boost.s_feedbackIRaw = ADC_MAX - 1
    /\ boost.eI < -ADC_MAX
    /\ boost.s_pwmDuty = MIN_DUTY

\* C7: a Tick that runs with targetVoltageRaw = 0 or targetCurrentRaw = 0 sets
\* lastError and integralError to zero and commits MIN_DUTY, whatever the samples
\* and the PID state before it.
TickWithZeroTargetResets ==
    [][(cop' = "Tick" /\ ZeroTarget(boost)) => Disabled(boost')]_vars

\* C7 witness: a Tick has run with a zero current target on samples at the ADC
\* maximum, after an enabled Tick had left a nonzero mode flag behind.
ZeroTargetTickTaken ==
    /\ cop = "Tick"
    /\ boost.s_targetIRaw = 0
    /\ boost.s_targetVRaw # 0
    /\ boost.s_ccMode = 1
    /\ boost.s_feedbackVRaw = ADC_MAX - 1
    /\ nTicks = 0

\* C8 as claimed: in every reachable state, a zero target means duty MIN_DUTY and
\* zero PID memory, also between a target-setting call and the next Tick.
ZeroTargetAlwaysDisabled == ZeroTarget(boost) => Disabled(boost)

\* C8 amended: in every reachable state in which a Tick has run since the last
\* write to a target, a zero target means duty MIN_DUTY and zero PID memory.
ZeroTargetDisabledOnceTicked ==
    (~pending /\ ZeroTarget(boost)) => Disabled(boost)

\* C8 witness: the voltage target was zeroed while the converter was running and
\* a Tick has run since; the main context is already converting the next target.
ZeroedTargetSeenByTick ==
    /\ ~pending
    /\ cop = "MillivoltsToADC"
    /\ boost.s_targetVRaw = 0
    /\ boost.s_targetIRaw # 0
    /\ boost.s_ccMode = 1
    /\ Disabled(boost)

\* C9: the first enabled Tick after a disabled Tick gives two controllers with
\* different histories before the disable, and the same targets and samples at
\* that Tick, the same duty, lastError and integralError.
NoWindupAcrossDisable ==
    (/\ phase = "first"
     /\ runA.c.s_targetVRaw = runB.c.s_targetVRaw
     /\ runA.c.s_targetIRaw = runB.c.s_targetIRaw)
    => /\ runA.c.s_pwmDuty = runB.c.s_pwmDuty
       /\ runA.c.lastEP = runB.c.lastEP
       /\ runA.c.eI = runB.c.eI

\* C9 witness: the two controllers had wound up different integrals before the
\* disabled Tick and have now taken the first enabled Tick on equal targets.
FirstTickAfterDifferentWindup ==
    /\ phase = "first"
    /\ runA.wound # runB.wound
    /\ runA.wound # 0
    /\ runB.wound # 0
    /\ runA.c.s_targetVRaw = runB.c.s_targetVRaw
    /\ runA.c.s_targetIRaw = runB.c.s_targetIRaw
    /\ runA.c.s_pwmDuty > MIN_DUTY

\* C10: after every enabled Tick ccMode is true exactly when eV >= eI, and the
\* error accumulated by the PID is min(eV, eI).
CcModeIsBindingCurrent ==
    [][(cop' = "Tick" /\ ~ZeroTarget(boost))
          => /\ boost'.s_ccMode = (IF ErrV(boost') >= ErrI(boost') THEN 1 ELSE 0)
             /\ boost'.eI = boost.eI + Min(ErrV(boost'), ErrI(boost'))]_vars

\* C10 witness: an enabled Tick has run exactly at the crossover eV = eI, with a
\* nonzero error, and has set ccMode.
TickAtCrossover ==
    /\ cop = "Tick"
    /\ ~ZeroTarget(boost)
    /\ ErrV(boost) = ErrI(boost)
    /\ ErrV(boost) # 0
    /\ boost.s_ccMode = 1

\* C11: after every enabled Tick lastError equals the error min(eV, eI) that
\* the Tick used, so that the next derivative term is the difference between
\* consecutive errors.
LastErrorTracksError ==
    [][(cop' = "Tick" /\ ~ZeroTarget(boost))
          => boost'.lastEP = Min(ErrV(boost'), ErrI(boost'))]_vars

\* this Tick follows an enabled Tick directly, and both errors were positive
\* at that Tick and are positive at this one
PositiveRun ==
    /\ cop = "Tick"
    /\ cop' = "Tick"
    /\ ~ZeroTarget(boost)
    /\ ErrV(boost) > 0 /\ ErrI(boost) > 0
    /\ ErrV(boost') > 0 /\ ErrI(boost') > 0

CurrentLimitStoredExactly ==
    [][cop' = "BoostPWM_SetCurrentLimit"
          => /\ boost'.s_targetIRaw =
                    IF mlocal' = 0 THEN 0 ELSE mlocal' + boost.s_currentOffset
             /\ mlocal' > 0 => boost'.s_targetIRaw # 0
             /\ boost'.s_pwmDuty = boost.s_pwmDuty
             /\ boost'.s_ccMode = boost.s_ccMode
             /\ boost'.lastEP = boost.lastEP
             /\ boost'.eI = boost.eI]_vars

\* c is the sum a + b of two ints, the sum not reduced modulo 2^32
IsSum(c, a, b) ==
    /\ b > 0 => a <= INT_MAX - b
    /\ b < 0 => a >= (-INT_MAX - 1) - b
    /\ c = a + b

\* C21: on every enabled Tick integralError grows by exactly e = min(eV, eI),
\* and the committed duty is e + ((e - lastError) >> 3) + (integralError >> 6),
\* with the integral after the accumulation, limited to [MIN_DUTY, MAX_DUTY].
TickAccumulatesAndSums ==
    [][(cop' = "Tick" /\ ~ZeroTarget(boost))
          => LET e == Min(ErrV(boost'), ErrI(boost'))
             IN  /\ IsSum(boost'.eI, boost.eI, e)
                 /\ boost'.s_pwmDuty =
                        Min(Max(e + ((e - boost.lastEP) \div 8) + (boost'.eI \div 64),
                                MIN_DUTY), MAX_DUTY)]_vars

(***************************************************************************)
(*                       Properties of the ring buffer                     *)
(***************************************************************************)
IsPut == rop'.op = "RingBuffer_Put" /\ rop'.len >= 1
IsGet == rop'.op = "RingBuffer_Get" /\ rop'.len >= 1

\* C2: as long as the unread bytes never exceeded the capacity, Peek returns the
\* number of bytes accepted by Put and not yet returned by Get, and head = tail
\* exactly when there are none.
PeekIsOccupancy ==
    ~overfilled => /\ RingBuffer_Peek(ring) = Len(unread)
                   /\ (ring.head = ring.tail) <=> (Len(unread) = 0)

\* C3: a successful Put of S into a buffer with no unread bytes, followed by a
\* Get requesting |S| bytes, reports |S| bytes read and returns exactly S.
RoundTrip ==
    [][(/\ rop.op = "RingBuffer_Put"
        /\ ret.status = SUCCESS
        /\ Len(unread) = rop.len
        /\ IsGet
        /\ rop'.len = rop.len)
          => /\ ret'.status = SUCCESS
             /\ ret'.bytesRead = rop.len
             /\ ret'.out = unread]_vars

\* C4: a Put of more than capacity - Peek() bytes returns Overflow and leaves
\* head, tail and every storage byte unchanged.
PutOverflowWritesNothing ==
    [][(IsPut /\ rop'.len > ring.size - RingBuffer_Peek(ring))
          => (ret'.status = OVERFLOW /\ ring' = ring)]_vars

\* C4 witness: a Put that would have fitted an empty buffer was refused on a
\* partly filled one whose unread bytes wrap around the end of the storage.
PutRefusedOnWrappedBuffer ==
    /\ rop.op = "RingBuffer_Put"
    /\ ret.status = OVERFLOW
    /\ rop.len <= ring.size
    /\ ring.head < ring.tail
    /\ ~overfilled

\* C5: with n unread bytes in a buffer of capacity C, a Put of L bytes returns
\* Success exactly when L <= C - n and Overflow exactly when L > C - n.
PutSucceedsIffFits ==
    [][(IsPut /\ ~overfilled)
          => /\ (ret'.status = SUCCESS) <=> (rop'.len <= ring.size - Len(unread))
             /\ (ret'.status = OVERFLOW) <=> (rop'.len > ring.size - Len(unread))]_vars

\* C6: a Get returns Success, reports min(maxLength, unread bytes) bytes read,
\* copies exactly those oldest unread bytes in order and advances tail by that
\* many positions modulo the capacity.
GetReadsOldest ==
    [][(IsGet /\ ~overfilled)
          => LET n == Min(rop'.len, Len(unread))
             IN  /\ ret'.status = SUCCESS
                 /\ ret'.bytesRead = n
                 /\ ret'.out = SubSeq(unread, 1, n)
                 /\ ring'.tail = (ring.tail + n) % ring.size
                 /\ ring'.head = ring.head
                 /\ ring'.data = ring.data]_vars

\* the logical offsets (0 = oldest unread byte) at which the pattern P occurs
\* contiguously among the unread bytes S
Offsets(S, P) ==
    {k \in 0..(Len(S) - Len(P)) : \A j \in 1..Len(P) : S[k + j] = P[j]}
Least(K) == CHOOSE k \in K : \A j \in K : k <= j
IsIndexOf == rop'.op = "RingBuffer_IndexOf"
IsFind    == rop'.op = "RingBuffer_Find" /\ rop'.len >= 1

\* C12: IndexOf(value) returns Success with the smallest logical offset at
\* which an unread byte equals value, and the not-found status exactly when no
\* unread byte equals value.
IndexOfFindsFirst ==
    [][(IsIndexOf /\ ~overfilled)
          => LET hits == Offsets(unread, <<rop'.value>>)
             IN  IF hits = {}
                 THEN ret'.status = ERROR
                 ELSE ret'.status = SUCCESS /\ ret'.index = Least(hits)]_vars

\* C13: Find(pattern) returns Success with the smallest logical offset at which
\* all pattern bytes occur contiguously among the unread bytes, and the not-found
\* status otherwise, also when only the first pattern bytes match the newest
\* unread bytes and the rest would lie at or beyond head.
FindFindsFirst ==
    [][(IsFind /\ ~overfilled)
          => LET hits == Offsets(unread, rop'.value)
             IN  IF hits = {}
                 THEN ret'.status = ERROR
                 ELSE ret'.status = SUCCESS /\ ret'.index = Least(hits)]_vars

IsScan == rop'.op \in {"RingBuffer_IndexOf", "RingBuffer_Find"}

\* C14: IndexOf, Find and Peek leave head, tail and the storage as they were,
\* and an IndexOf or Find that repeats the call before it, with the same
\* argument, yields the same status and the same index.
ScansDoNotConsume ==
    [][/\ (IsScan \/ rop'.op = "RingBuffer_Peek") => ring' = ring
       /\ (IsScan /\ rop'.again) => ret' = ret]_vars

\* C14 witness: an IndexOf has repeated the IndexOf before it on a buffer whose
\* unread bytes wrap around the end of the storage, and has again found the
\* value behind older unread bytes.
IndexOfRepeated ==
    /\ rop.op = "RingBuffer_IndexOf"
    /\ rop.again
    /\ ret.status = SUCCESS
    /\ ret.index > 0
    /\ ring.head < ring.tail

\* C16: after a successful Init and any sequence of completed Put, Get, Peek,
\* IndexOf and Find calls, successful or failing, 0 <= head < size and
\* 0 <= tail < size.
CursorsInRange ==
    /\ ring.head \in 0..(ring.size - 1)
    /\ ring.tail \in 0..(ring.size - 1)

\* C16 witness: a Get has just read up to the last storage position and wrapped
\* tail to 0, after a Put had wrapped head past it.
BothCursorsWrapped ==
    /\ rop.op = "RingBuffer_Get"
    /\ rop.len >= 1
    /\ ret.bytesRead >= 1
    /\ ring.size > 1
    /\ ring.tail = 0
    /\ ring.head \in 1..(ring.size - 1)
    /\ ~overfilled

(***************************************************************************)
(*                  Properties of the calls, step by step                  *)
(***************************************************************************)
LockedOps ==
    {"RingBuffer_Put", "RingBuffer_Get", "RingBuffer_Peek",
     "RingBuffer_IndexOf", "RingBuffer_Find"}
Returns == call.pc # "idle" /\ call'.pc = "idle"

\* C15: with a lock strategy attached, a Put, Get, Peek, IndexOf or Find that
\* returns leaves the lock free, having released it as often as it took it and
\* at most once, on every exit path; and head and tail are written only while
\* the lock is held.
LockReleasedOnEveryPath ==
    [][(call.op \in LockedOps /\ ring.mutex = FullMutex)
          => /\ Returns => /\ ~lock'.held
                           /\ lock'.releases = lock'.takes
                           /\ lock'.takes = IF call'.status = INVALID_PARAM THEN 0 ELSE 1
             /\ (ring'.head # ring.head \/ ring'.tail # ring.tail) => lock.held]_vars

\* C15 witness: with the strategy attached, a Put has returned Overflow after
\* taking the lock once and releasing it once.
OverflowReturnedUnlocked ==
    /\ call.pc = "idle"
    /\ call.op = "RingBuffer_Put"
    /\ call.status = OVERFLOW
    /\ ring.mutex = FullMutex
    /\ lock.takes = 1
    /\ lock.releases = 1
    /\ ~lock.held

\* a null ring, data, pattern or index pointer, or a zero size or length, among
\* the arguments of the call c
NullOrZeroArgument(c) ==
    \/ c.ring = NULL
    \/ c.op # "RingBuffer_IndexOf" /\ (c.data = NULL \/ c.size = 0)
    \/ c.op \in {"RingBuffer_IndexOf", "RingBuffer_Find"} /\ c.index = NULL

\* C17: Init, InitThreadSafe, Put, Get, IndexOf and Find called with a null
\* ring, data, pattern or index pointer or a zero size return InvalidParameter
\* and leave head, tail, the storage, the attached lock strategy and the lock
\* as they were.
InvalidParamBeforeMutation ==
    [][(/\ call.pc = "entry"
        /\ call.op \in (LockedOps \cup {"RingBuffer_Init", "RingBuffer_InitThreadSafe"})
                        \ {"RingBuffer_Peek"}
        /\ NullOrZeroArgument(call))
          => /\ call'.pc = "idle"
             /\ call'.status = INVALID_PARAM
             /\ ring' = ring
             /\ lock' = lock]_vars

\* C17 witness: InitThreadSafe was given a complete strategy and a null data
\* pointer or a zero size for a ring that is in use without a strategy, and
\* has returned InvalidParameter.
InitThreadSafeRejected ==
    /\ call.pc = "idle"
    /\ call.op = "RingBuffer_InitThreadSafe"
    /\ call.status = INVALID_PARAM
    /\ call.ring # NULL
    /\ call.mutex = FullMutex
    /\ ring.mutex = NoMutex
    /\ ring.size > 0
    /\ ring.head # ring.tail

\* C18: a Get with a null or zero argument, a null bytesRead pointer included,
\* returns InvalidParameter without reading or consuming a byte and without
\* storing through bytesRead.
GetRejectsNullBytesRead ==
    [][(/\ call.pc = "entry"
        /\ call.op = "RingBuffer_Get"
        /\ (NullOrZeroArgument(call) \/ call.bytesRead = NULL))
          => /\ call'.pc = "idle"
             /\ call'.status = INVALID_PARAM
             /\ ring' = ring]_vars

\* C26: with no lock attached, at every statement boundary inside Put and Get
\* head < size and tail < size hold.
CursorsInRangeInsideCalls ==
    (/\ call.pc # "idle"
     /\ call.op \in {"RingBuffer_Put", "RingBuffer_Get"}
     /\ ring.mutex = NoMutex)
        => (ring.head < ring.size /\ ring.tail < ring.size)

\* C24: with a lock strategy attached, however a producer's Puts and a
\* consumer's Gets interleave, the bytes the Gets return are, in order, the
\* bytes the successful Puts accepted: each Get returns the oldest accepted
\* bytes not yet returned, none lost, duplicated, reordered or overwritten.
GetsReturnAcceptedPrefix ==
    [][(peer.pc = "RingUnlock" /\ peer'.pc = "idle")
          => (/\ Len(peer.out) <= Len(unread)
              /\ peer.out = SubSeq(unread, 1, Len(peer.out)))]_vars

UsbCurrentClamped ==
    [][/\ (mpc = "SetCurrentLimit" /\ mpc' = "mark")
            => passed'.current <= CONFIG_CURRENT_LIMIT
       /\ (mpc = "clampCurrent" /\ mpc' = "SetVoltageTarget")
            => s_command'.voltage = s_command.voltage]_vars

\* C23: the voltage passed to BoostPWM_SetVoltageTarget on the USB path never
\* exceeds CONFIG_VOLTAGE_LIMIT, wherever the USB interrupt falls in the
\* loop's check, clamp and apply.
UsbVoltageWithinLimit ==
    [][(mpc = "SetVoltageTarget" /\ mpc' = "SetCurrentLimit")
          => passed'.voltage <= CONFIG_VOLTAGE_LIMIT]_vars

\* the commanded values are within the limits, so that clamping changes nothing
CommandWithinLimits ==
    /\ s_command.voltage <= CONFIG_VOLTAGE_LIMIT
    /\ s_command.current <= CONFIG_CURRENT_LIMIT

\* C28: every command the USB handler accepted is eventually applied: once no
\* further command arrives, the targets passed to the controller come to equal
\* the latest s_command values and stay so. Stated for hosts that only ever
\* command values within the limits, for which the clamped values are the
\* commanded ones.
UsbCommandEventuallyApplied ==
    ([]CommandWithinLimits)
        => <>[](/\ passed.voltage = s_command.voltage
                /\ passed.current = s_command.current)

\* a uint32_t is at most limit (values from 2^31 up are the negative ints)
AtMost(x, limit) == x \in 0..limit

\* C27: whatever keys the console sends, every value passed to
\* BoostPWM_SetVoltageTarget is at most CONFIG_VOLTAGE_LIMIT and every value
\* passed to BoostPWM_SetCurrentLimit is at most CONFIG_CURRENT_LIMIT: '-' does
\* not take a command below zero and around, '+' does not take it over its limit.
ConsoleWithinLimits ==
    passed.by = "console"
        => /\ AtMost(passed.voltage, CONFIG_VOLTAGE_LIMIT)
           /\ AtMost(passed.current, CONFIG_CURRENT_LIMIT)

====
